---- MODULE Spec2Model ----
(***************************************************************************)
(* The TabBar widget of src/native/tab_bar.rs: the builder surface (new,   *)
(* with_tab_labels, push, set_active_tab, on_close and the configuration   *)
(* setters), the accessors, and the Widget callbacks layout, on_event and  *)
(* mouse_interaction.                                                      *)
(*                                                                         *)
(* Lengths and coordinates are f32 in the source and integers here; a      *)
(* division by the number of fill children is an integer division.  A      *)
(* callback is modelled by the message it produces: on_select(id) is       *)
(* [msg |-> "select", id |-> id] and on_close(id) is [msg |-> "close", ..]. *)
(* A TabLabel is modelled by its variant; the glyph and the string it      *)
(* carries do not reach any code modelled here except through the size of  *)
(* the text box, which is taken to be the font size wide for a glyph and   *)
(* 1.3 times the font size high (the line height the file draws with).     *)
(***************************************************************************)
EXTENDS Integers, Sequences, FiniteSets, TLC

VARIABLES
    active_tab,    \* usize: index (from 0) of the active tab
    tab_labels,    \* Vec<TabLabel>
    tab_indices,   \* Vec<TabId>
    on_close,      \* Option<Box<dyn Fn>>: TRUE when a close callback is registered
    width, tab_width, height, max_height,
    icon_size, text_size, close_size, padding, spacing,
    icon_font, text_font, style,
    given,         \* history: the (id, label) pairs handed to the bar so far
    op,            \* the last call made on the bar
    arg,           \* the TabId argument of the last push / set_active_tab
    node,          \* the layout tree produced by, or passed to, the last Widget call
    event,         \* the event of the last on_event
    cursor,        \* the cursor of the last on_event / mouse_interaction
    published,     \* the messages the last on_event published to the shell
    status         \* what the last Widget call returned (or "Panic")

tabs   == <<active_tab, tab_labels, tab_indices, given>>
config == <<width, tab_width, height, max_height, icon_size, text_size,
            close_size, padding, spacing, icon_font, text_font, style>>
bar    == <<tabs, on_close, config>>
call   == <<op, arg, node, event, cursor, published, status>>
vars   == <<bar, call>>

(***************************************************************************)
(* Bounds and input sets                                                   *)
(***************************************************************************)
MaxTabs == 2

TabIds == {"a", "b"}
TabLabels == {"Icon", "Text", "IconText"}
\* The (id, label) pairs handed to with_tab_labels and push: every variant of
\* TabLabel, and an id that may come more than once.
Entries == {<<"a", "Text">>, <<"b", "Icon">>, <<"a", "IconText">>}

Max(a, b) == IF a >= b THEN a ELSE b
Min(a, b) == IF a <= b THEN a ELSE b

Fill == [kind |-> "Fill", amount |-> 0]
Shrink == [kind |-> "Shrink", amount |-> 0]
Fixed(a) == [kind |-> "Fixed", amount |-> a]

None == [is_some |-> FALSE]
Some(v) == [is_some |-> TRUE, value |-> v]

(***************************************************************************)
(* Program constants                                                       *)
(***************************************************************************)
DEFAULT_ICON_SIZE == 32
DEFAULT_TEXT_SIZE == 16
DEFAULT_CLOSE_SIZE == 16
DEFAULT_PADDING == 5
DEFAULT_SPACING == 0
\* max_height is never read; its f32 values are kept as written (line 152).
DEFAULT_MAX_HEIGHT == "4_294_967_295.0"

NoId == "-"
NoNode == [bounds |-> [x |-> 0, y |-> 0, width |-> 0, height |-> 0], children |-> <<>>]
NoEvent == "-"
NoCursor == [kind |-> "-"]

Unavailable == [kind |-> "Unavailable", position |-> <<0, 0>>]
Available(p) == [kind |-> "Available", position |-> p]

WidgetOps == {"layout", "stale_layout", "on_event", "mouse_interaction"}

\* A builder call takes the bar by value and returns it: it is made while the bar is
\* being built, before the bar is handed to the host as an Element (lines 692-703),
\* which makes the Widget calls.
Building == op \notin WidgetOps

Called(o, a) ==
    /\ Building
    /\ op' = o
    /\ arg' = a
    /\ UNCHANGED <<node, event, cursor, published, status>>

(***************************************************************************)
(* Construction                                                            *)
(***************************************************************************)
SeqsUpTo(S, n) == UNION {[1..k -> S] : k \in 0..n}

with_tab_labels(labels) ==
    /\ active_tab = 0
    /\ tab_indices = [i \in 1..Len(labels) |-> labels[i][1]]
    /\ tab_labels = [i \in 1..Len(labels) |-> labels[i][2]]
    /\ on_close = FALSE
    /\ width = Fill
    /\ tab_width = Fill
    /\ height = Shrink
    /\ max_height = DEFAULT_MAX_HEIGHT
    /\ icon_size = DEFAULT_ICON_SIZE
    /\ text_size = DEFAULT_TEXT_SIZE
    /\ close_size = DEFAULT_CLOSE_SIZE
    /\ padding = DEFAULT_PADDING
    /\ spacing = DEFAULT_SPACING
    /\ icon_font = None
    /\ text_font = None
    /\ style = "Default"
    /\ given = labels
    /\ op = "new" /\ arg = NoId /\ node = NoNode /\ event = NoEvent
    /\ cursor = NoCursor /\ published = <<>> /\ status = "-"

new == with_tab_labels(<<>>)

Init == \/ new
        \/ \E labels \in SeqsUpTo(Entries, MaxTabs) : with_tab_labels(labels)

(***************************************************************************)
(* Accessors                                                               *)
(***************************************************************************)
get_active_tab_idx == active_tab

\* Faulty variant: the first id whatever the active index.
get_first_tab_id == IF tab_indices # <<>> THEN Some(tab_indices[1]) ELSE None

\* Vec::get: None when the index is past the end.
get_active_tab_id ==
    IF active_tab + 1 \in DOMAIN tab_indices THEN Some(tab_indices[active_tab + 1]) ELSE None

size == Len(tab_indices)

(***************************************************************************)
(* Builder calls                                                           *)
(***************************************************************************)
on_close_set ==
    /\ on_close' = TRUE
    /\ UNCHANGED <<tabs, config>>
    /\ Called("on_close", NoId)

\* Faulty variant: the id is recorded without its label.
push_id_only(id, tab_label) ==
    /\ Len(tab_labels) < MaxTabs
    /\ tab_indices' = Append(tab_indices, id)
    /\ given' = Append(given, <<id, tab_label>>)
    /\ UNCHANGED <<tab_labels, active_tab, on_close, config>>
    /\ Called("push", id)

push(id, tab_label) ==
    /\ Len(tab_labels) < MaxTabs
    /\ tab_labels' = Append(tab_labels, tab_label)
    /\ tab_indices' = Append(tab_indices, id)
    /\ given' = Append(given, <<id, tab_label>>)
    /\ UNCHANGED <<active_tab, on_close, config>>
    /\ Called("push", id)

\* Faulty variant, to see that the properties below tell it from the code: the
\* last match instead of the first.
position_last(s, id) ==
    IF \E i \in DOMAIN s : s[i] = id
    THEN Some((CHOOSE i \in DOMAIN s : s[i] = id /\ \A j \in (i + 1)..Len(s) : s[j] # id) - 1)
    ELSE None

\* Iterator::position: the index (from 0) of the first element equal to id.
position(s, id) ==
    IF \E i \in DOMAIN s : s[i] = id
    THEN Some((CHOOSE i \in DOMAIN s : s[i] = id /\ \A j \in 1..(i - 1) : s[j] # id) - 1)
    ELSE None

\* Faulty variant: an index one past the match.
map_or_next(o, default) == IF o.is_some THEN o.value + 1 ELSE default

map_or(o, default) == IF o.is_some THEN o.value ELSE default

set_active_tab(id) ==
    /\ active_tab' = map_or(position(tab_indices, id), 0)
    /\ UNCHANGED <<tab_labels, tab_indices, given, on_close, config>>
    /\ Called("set_active_tab", id)

(***************************************************************************)
(* Configuration setters: each assigns its field and nothing else.  A      *)
(* setter is followed while every other setting has its default.           *)
(***************************************************************************)
Settings ==
    [width |-> width, tab_width |-> tab_width, height |-> height,
     max_height |-> max_height, icon_size |-> icon_size, text_size |-> text_size,
     close_size |-> close_size, padding |-> padding, spacing |-> spacing,
     icon_font |-> icon_font, text_font |-> text_font, style |-> style]

Defaults ==
    [width |-> Fill, tab_width |-> Fill, height |-> Shrink,
     max_height |-> DEFAULT_MAX_HEIGHT, icon_size |-> DEFAULT_ICON_SIZE,
     text_size |-> DEFAULT_TEXT_SIZE, close_size |-> DEFAULT_CLOSE_SIZE,
     padding |-> DEFAULT_PADDING, spacing |-> DEFAULT_SPACING,
     icon_font |-> None, text_font |-> None, style |-> "Default"]

MaySet(f) ==
    \A g \in DOMAIN Defaults \ {f} : Settings[g] = Defaults[g]

Widths == {Fill, Fixed(100)}
TabWidths == {Fill, Fixed(40)}
Heights == {Shrink, Fixed(30)}
MaxHeights == {DEFAULT_MAX_HEIGHT, "100.0"}
IconSizes == {DEFAULT_ICON_SIZE, 8}
TextSizes == {DEFAULT_TEXT_SIZE, 10}
CloseSizes == {DEFAULT_CLOSE_SIZE, 3}
Paddings == {DEFAULT_PADDING, 0}
Spacings == {DEFAULT_SPACING, 2}
Fonts == {"Monospace"}
Styles == {"Default", "Custom"}

set_width(w) ==
    /\ MaySet("width")
    /\ width' = w
    /\ UNCHANGED <<tabs, on_close, tab_width, height, max_height, icon_size, text_size,
                   close_size, padding, spacing, icon_font, text_font, style>>
    /\ Called("width", NoId)

set_tab_width(w) ==
    /\ MaySet("tab_width")
    /\ tab_width' = w
    /\ UNCHANGED <<tabs, on_close, width, height, max_height, icon_size, text_size,
                   close_size, padding, spacing, icon_font, text_font, style>>
    /\ Called("tab_width", NoId)

set_height(h) ==
    /\ MaySet("height")
    /\ height' = h
    /\ UNCHANGED <<tabs, on_close, width, tab_width, max_height, icon_size, text_size,
                   close_size, padding, spacing, icon_font, text_font, style>>
    /\ Called("height", NoId)

set_max_height(h) ==
    /\ MaySet("max_height")
    /\ max_height' = h
    /\ UNCHANGED <<tabs, on_close, width, tab_width, height, icon_size, text_size,
                   close_size, padding, spacing, icon_font, text_font, style>>
    /\ Called("max_height", NoId)

set_icon_size(s) ==
    /\ MaySet("icon_size")
    /\ icon_size' = s
    /\ UNCHANGED <<tabs, on_close, width, tab_width, height, max_height, text_size,
                   close_size, padding, spacing, icon_font, text_font, style>>
    /\ Called("icon_size", NoId)

set_text_size(s) ==
    /\ MaySet("text_size")
    /\ text_size' = s
    /\ UNCHANGED <<tabs, on_close, width, tab_width, height, max_height, icon_size,
                   close_size, padding, spacing, icon_font, text_font, style>>
    /\ Called("text_size", NoId)

set_close_size(s) ==
    /\ MaySet("close_size")
    /\ close_size' = s
    /\ UNCHANGED <<tabs, on_close, width, tab_width, height, max_height, icon_size,
                   text_size, padding, spacing, icon_font, text_font, style>>
    /\ Called("close_size", NoId)

set_padding(p) ==
    /\ MaySet("padding")
    /\ padding' = p
    /\ UNCHANGED <<tabs, on_close, width, tab_width, height, max_height, icon_size,
                   text_size, close_size, spacing, icon_font, text_font, style>>
    /\ Called("padding", NoId)

set_spacing(s) ==
    /\ MaySet("spacing")
    /\ spacing' = s
    /\ UNCHANGED <<tabs, on_close, width, tab_width, height, max_height, icon_size,
                   text_size, close_size, padding, icon_font, text_font, style>>
    /\ Called("spacing", NoId)

set_icon_font(f) ==
    /\ MaySet("icon_font")
    /\ icon_font' = Some(f)
    /\ UNCHANGED <<tabs, on_close, width, tab_width, height, max_height, icon_size,
                   text_size, close_size, padding, spacing, text_font, style>>
    /\ Called("icon_font", NoId)

set_text_font(f) ==
    /\ MaySet("text_font")
    /\ text_font' = Some(f)
    /\ UNCHANGED <<tabs, on_close, width, tab_width, height, max_height, icon_size,
                   text_size, close_size, padding, spacing, icon_font, style>>
    /\ Called("text_font", NoId)

set_style(s) ==
    /\ MaySet("style")
    /\ style' = s
    /\ UNCHANGED <<tabs, on_close, width, tab_width, height, max_height, icon_size,
                   text_size, close_size, padding, spacing, icon_font, text_font>>
    /\ Called("style", NoId)

(***************************************************************************)
(* Layout.  The file builds a Row of one label Row per tab and hands it to *)
(* the host's flex layout; what follows is that composition, with the      *)
(* host's rules for limits (pad, width/height of a Length, resolve) and    *)
(* for a row or column (non-fill children first, the rest shared by the    *)
(* fill children, children placed one after the other).                    *)
(***************************************************************************)
Rect(x, y, w, h) == [x |-> x, y |-> y, width |-> w, height |-> h]
Node(b, c) == [bounds |-> b, children |-> c]

\* Limits on one axis after .width(len) / .height(len) on Limits::new(min, max).
Lim(len, lo, hi) ==
    CASE len.kind = "Fill"   -> [min |-> lo, max |-> hi, fill |-> hi]
      [] len.kind = "Shrink" -> [min |-> lo, max |-> hi, fill |-> lo]
      [] len.kind = "Fixed"  ->
            LET v == Max(Min(len.amount, hi), lo) IN [min |-> v, max |-> v, fill |-> v]

\* Limits::pad on one axis, by the padding of both sides.
Pad(l, p) == [min |-> Max(l.min - p, 0), max |-> Max(l.max - p, 0), fill |-> Max(l.fill - p, 0)]

\* Limits::resolve on one axis.
Resolve(l, intrinsic) == Max(Min(intrinsic, l.max), l.fill)

\* The height of a line of text of the given size (LineHeight::Relative(1.3)).
LineHeight(s) == (s * 13) \div 10

\* Node::move_to / translate: the node and every node below it moved by (dx, dy).
\* A tab bar's tree is four levels deep: bar, tab, label column or close slot, text box.
Moved(r, dx, dy) == Rect(r.x + dx, r.y + dy, r.width, r.height)
TranslateLeaf(n, dx, dy) == Node(Moved(n.bounds, dx, dy), <<>>)
TranslateLabel(n, dx, dy) ==
    Node(Moved(n.bounds, dx, dy), [i \in DOMAIN n.children |-> TranslateLeaf(n.children[i], dx, dy)])
TranslateTab(n, dx, dy) ==
    Node(Moved(n.bounds, dx, dy), [i \in DOMAIN n.children |-> TranslateLabel(n.children[i], dx, dy)])
Translate(n, dx, dy) ==
    Node(Moved(n.bounds, dx, dy), [i \in DOMAIN n.children |-> TranslateTab(n.children[i], dx, dy)])

\* The label Column of one tab (lines 335-378) whose limits are w x h: the icon Row
\* and/or the Text, stacked and centred.
StackColumn(w, h, icon, text, cross) ==
    Node(Rect(0, 0, Resolve(w, cross), Resolve(h, icon.height + text.height)),
         (IF icon.present
          THEN <<Node(Rect((cross - icon.width) \div 2, 0, icon.width, icon.height), <<>>)>>
          ELSE <<>>)
         \o (IF text.present
             THEN <<Node(Rect((cross - text.width) \div 2, icon.height, text.width, text.height), <<>>)>>
             ELSE <<>>))

IconBox(label, w, h) ==
    IF label \in {"Icon", "IconText"}
    THEN [present |-> TRUE, width |-> Min(icon_size, w.max),
          height |-> Min(LineHeight(icon_size), h.max)]
    ELSE [present |-> FALSE, width |-> 0, height |-> 0]

TextBox(label, w, h, above) ==
    IF label \in {"Text", "IconText"}
    THEN [present |-> TRUE, width |-> Resolve(Lim(tab_width, 0, w.max), text_size),
          height |-> Min(LineHeight(text_size), h.max - above)]
    ELSE [present |-> FALSE, width |-> 0, height |-> 0]

ColumnIn(w, h, icon, text) ==
    StackColumn(w, h, icon, text, Max(Max(w.min, w.fill), Max(icon.width, text.width)))

ColumnWith(label, w, h, icon) == ColumnIn(w, h, icon, TextBox(label, w, h, icon.height))

LabelColumn(label, lo_w, hi_w, lo_h, hi_h) ==
    ColumnWith(label, Lim(tab_width, lo_w, hi_w), Lim(height, lo_h, hi_h),
               IconBox(label, Lim(tab_width, lo_w, hi_w), Lim(height, lo_h, hi_h)))

\* One tab's label Row (lines 380-393) whose padded limits are w x h: the label
\* Column and, when a close callback is registered, the close slot after it, both
\* centred on the cross axis.
RowOf(close, w, h, column, close_w, close_h, cross) ==
    Node(Rect(0, 0, Resolve(w, column.bounds.width + close_w) + 2 * padding,
                    Resolve(h, cross) + 2 * padding),
         <<TranslateLabel(column, padding, padding + (cross - column.bounds.height) \div 2)>>
         \o (IF close
             THEN <<Node(Rect(padding + column.bounds.width,
                              padding + (cross - close_h) \div 2, close_w, close_h), <<>>)>>
             ELSE <<>>))

RowWith(close, w, h, column, close_w, close_h) ==
    RowOf(close, w, h, column, close_w, close_h,
          Max(Max(h.min, h.fill), Max(column.bounds.height, close_h)))

\* a fill label takes what the close slot leaves; a fixed label is laid out first
RowIn(label, close, w, h) ==
    IF tab_width.kind = "Fill"
    THEN RowWith(close, w, h,
                 LabelColumn(label,
                             w.max - (IF close THEN Min(close_size + 1, w.max) ELSE 0),
                             w.max - (IF close THEN Min(close_size + 1, w.max) ELSE 0),
                             h.min, h.max),
                 IF close THEN Min(close_size + 1, w.max) ELSE 0,
                 IF close THEN Min(close_size + 1, h.max) ELSE 0)
    ELSE RowWith(close, w, h,
                 LabelColumn(label, 0, w.max, 0, h.max),
                 IF close
                 THEN Min(close_size + 1,
                          Max(w.max - LabelColumn(label, 0, w.max, 0, h.max).bounds.width, 0))
                 ELSE 0,
                 IF close THEN Min(close_size + 1, h.max) ELSE 0)

LabelRow(label, close, lo_w, hi_w, lo_h, hi_h) ==
    RowIn(label, close, Pad(Lim(tab_width, lo_w, hi_w), 2 * padding),
          Pad(Lim(Shrink, lo_h, hi_h), 2 * padding))

\* The tab Rows of the outer Row whose limits are w x h, placed one after the other:
\* the nodes, and the main-axis position reached.
PlaceTab(prev, k, tab) ==
    [nodes |-> Append(prev.nodes,
                      TranslateTab(tab, prev.main + (IF k > 1 THEN spacing ELSE 0), 0)),
     main |-> prev.main + (IF k > 1 THEN spacing ELSE 0) + tab.bounds.width,
     used |-> prev.used + tab.bounds.width]

PlaceTabs(labels, close, w, h) ==
    LET n == Len(labels)
        available == w.max - spacing * Max(n - 1, 0)
        placed[k \in 0..n] ==
            IF k = 0 THEN [nodes |-> <<>>, main |-> 0, used |-> 0]
            ELSE PlaceTab(placed[k - 1], k,
                          IF tab_width.kind = "Fill"
                          THEN LabelRow(labels[k], close, Max(available, 0) \div n,
                                        Max(available, 0) \div n, h.min, h.max)
                          ELSE LabelRow(labels[k], close, 0,
                                        Max(available - placed[k - 1].used, 0), 0, h.max))
    IN  placed[n]

MaxHeightOf(nodes) ==
    IF nodes = <<>> THEN 0
    ELSE CHOOSE m \in {nodes[i].bounds.height : i \in DOMAIN nodes} :
            \A i \in DOMAIN nodes : nodes[i].bounds.height <= m

\* TabBar::layout (lines 331-401) under Limits::new(ZERO, limits), the resulting node
\* placed at origin by the host.  close says whether the close slot is laid out.
RowNode(w, h, placed) ==
    Node(Rect(0, 0, Resolve(w, placed.main),
              Resolve(h, Max(Max(h.min, h.fill), MaxHeightOf(placed.nodes)))),
         placed.nodes)

LayoutOf(labels, close, limits, origin) ==
    Translate(RowNode(Lim(width, 0, limits[1]), Lim(height, 0, limits[2]),
                      PlaceTabs(labels, close, Lim(width, 0, limits[1]),
                                Lim(height, 0, limits[2]))),
              origin[1], origin[2])

\* Faulty variant: the close slot is never laid out.
layout_without_close(limits, origin) == LayoutOf(tab_labels, FALSE, limits, origin)

layout(limits, origin) == LayoutOf(tab_labels, on_close, limits, origin)

(***************************************************************************)
(* Widget calls.  The host lays the bar out and passes the tree, with the  *)
(* cursor, to on_event and mouse_interaction.  An expect() that fails      *)
(* panics: the process halts.                                              *)
(***************************************************************************)
Alive == status # "Panic"

\* Cursor::position: Some(point) of an available cursor.
cursor_position(c) == IF c.kind = "Available" THEN Some(c.position) ELSE None

\* Option::unwrap_or_default: Point::default() is the origin.
unwrap_or_default(o) == IF o.is_some THEN o.value ELSE <<0, 0>>

\* Rectangle::contains: the left and top edges are inside, the right and bottom are not.
Contains(r, p) ==
    /\ r.x <= p[1] /\ p[1] < r.x + r.width
    /\ r.y <= p[2] /\ p[2] < r.y + r.height

\* lines 421-428: for each child of the layout, whether it contains the point.
tabs_map(lay, p) == [i \in DOMAIN lay.children |-> Contains(lay.children[i].bounds, p)]

on_select(id) == [msg |-> "select", id |-> id]
on_close_msg(id) == [msg |-> "close", id |-> id]

\* Faulty variant: any mouse button counts as a press.
IsPressAnyButton(ev) ==
    ev \in {"Mouse::ButtonPressed(Left)", "Mouse::ButtonPressed(Right)", "Touch::FingerPressed"}

IsPress(ev) == ev \in {"Mouse::ButtonPressed(Left)", "Touch::FingerPressed"}

Ignored == [status |-> "Ignored", published |-> <<>>]
Panicked == [status |-> "Panic", published |-> <<>>]
Captured(message) == [status |-> "Captured", published |-> <<message>>]

\* Faulty variants: the close rectangle is not consulted.
message_always_close(lay, k, p) ==
    IF on_close THEN Captured(on_close_msg(tab_indices[k])) ELSE Captured(on_select(tab_indices[k]))

message_never_close(lay, k, p) == Captured(on_select(tab_indices[k]))

\* Faulty variant: a tab without close layout is selected instead of the panic.
message_or_select(lay, k, p) ==
    IF on_close /\ Len(lay.children[k].children) >= 2
                /\ Contains(lay.children[k].children[2].bounds, p)
    THEN Captured(on_close_msg(tab_indices[k]))
    ELSE Captured(on_select(tab_indices[k]))

\* lines 431-444: the message for tab k (from 1) hit at p.  The close layout is
\* looked up only when a close callback is registered; expect() on a missing layout
\* and an index past tab_indices panic before anything is published.
message_for(lay, k, p) ==
    IF on_close /\ Len(lay.children[k].children) < 2 THEN Panicked
    ELSE IF k \notin DOMAIN tab_indices THEN Panicked
    ELSE IF on_close /\ Contains(lay.children[k].children[2].bounds, p)
    THEN Captured(on_close_msg(tab_indices[k]))
    ELSE Captured(on_select(tab_indices[k]))

\* lines 430-446: the first tab hit, if any, decides.
dispatch(lay, p, new_selected) ==
    IF new_selected.is_some THEN message_for(lay, new_selected.value + 1, p) ELSE Ignored

\* lines 414-451
on_event_result(ev, lay, cur) ==
    IF IsPress(ev)
    THEN IF Contains(lay.bounds, unwrap_or_default(cursor_position(cur)))
         THEN dispatch(lay, unwrap_or_default(cursor_position(cur)),
                       position(tabs_map(lay, unwrap_or_default(cursor_position(cur))), TRUE))
         ELSE Ignored
    ELSE Ignored

\* Faulty variant: a select press makes the pressed tab the active one.
on_event_selecting(ev, cur) ==
    /\ op \in {"layout", "stale_layout"}
    /\ status' = on_event_result(ev, node, cur).status
    /\ published' = on_event_result(ev, node, cur).published
    /\ active_tab' =
          IF published' # <<>> /\ published'[1].msg = "select"
          THEN map_or(position(tab_indices, published'[1].id), 0)
          ELSE active_tab
    /\ op' = "on_event"
    /\ event' = ev
    /\ cursor' = cur
    /\ UNCHANGED <<tab_labels, tab_indices, given, on_close, config, arg, node>>

\* The host passes the tree it has just made, the event and its cursor.
on_event(ev, cur) ==
    /\ op \in {"layout", "stale_layout"}
    /\ status' = on_event_result(ev, node, cur).status
    /\ published' = on_event_result(ev, node, cur).published
    /\ op' = "on_event"
    /\ event' = ev
    /\ cursor' = cur
    /\ UNCHANGED <<bar, arg, node>>

\* lines 462-480: Pointer is the greatest interaction met over the children.
mouse_interaction_result(lay, cur) ==
    IF \E i \in DOMAIN lay.children :
          Contains(lay.children[i].bounds, unwrap_or_default(cursor_position(cur)))
    THEN "Pointer" ELSE "Idle"

mouse_interaction(cur) ==
    /\ op \in {"layout", "stale_layout"}
    /\ status' = mouse_interaction_result(node, cur)
    /\ published' = <<>>
    /\ op' = "mouse_interaction"
    /\ event' = NoEvent
    /\ cursor' = cur
    /\ UNCHANGED <<bar, arg, node>>

\* The host lays the bar out, before each call it makes with the tree.
do_layout(limits, origin) ==
    /\ Alive
    /\ node' = layout(limits, origin)
    /\ op' = "layout"
    /\ arg' = NoId
    /\ event' = NoEvent
    /\ cursor' = NoCursor
    /\ published' = <<>>
    /\ status' = "-"
    /\ UNCHANGED bar

\* The host passes the tree it laid out before the close callback was registered.
stale_layout(limits, origin) ==
    /\ Alive
    /\ on_close
    /\ node' = LayoutOf(tab_labels, FALSE, limits, origin)
    /\ op' = "stale_layout"
    /\ arg' = NoId
    /\ event' = NoEvent
    /\ cursor' = NoCursor
    /\ published' = <<>>
    /\ status' = "-"
    /\ UNCHANGED bar

(***************************************************************************)
(* The inputs of the Widget calls                                          *)
(***************************************************************************)
\* The limits the host lays the bar out under and the point it places it at: room
\* for every tab, at the window's corner and away from it, and a width that does not
\* hold the paddings of two tabs.
Placements == {<<<<120, 80>>, <<0, 0>>>>, <<<<120, 80>>, <<3, 2>>>>, <<<<12, 80>>, <<0, 0>>>>}

\* The cursor positions tried on a tree: for each tab its first point, the point just
\* below it, and the first and last point of its close slot; the point right of the
\* bar; the origin.
Probes(lay) ==
    {<<0, 0>>, <<lay.bounds.x + lay.bounds.width, lay.bounds.y>>}
    \cup UNION {{<<lay.children[i].bounds.x, lay.children[i].bounds.y>>,
                 <<lay.children[i].bounds.x,
                   lay.children[i].bounds.y + lay.children[i].bounds.height>>}
                : i \in DOMAIN lay.children}
    \cup UNION {{<<lay.children[i].children[2].bounds.x, lay.children[i].children[2].bounds.y>>,
                 <<lay.children[i].children[2].bounds.x
                     + lay.children[i].children[2].bounds.width - 1,
                   lay.children[i].children[2].bounds.y
                     + lay.children[i].children[2].bounds.height - 1>>}
                : i \in {j \in DOMAIN lay.children : Len(lay.children[j].children) >= 2}}

\* The two presses, and an event of each other kind: another button, a release, a
\* finger lifted, a key.
Events ==
    {"Mouse::ButtonPressed(Left)", "Touch::FingerPressed", "Mouse::ButtonPressed(Right)",
     "Mouse::ButtonReleased(Left)", "Touch::FingerLifted", "Keyboard::KeyPressed"}
Cursors(lay) == {Unavailable} \cup {Available(p) : p \in Probes(lay)}

Next ==
    \/ on_close_set
    \/ \E e \in Entries : push(e[1], e[2])
    \/ \E id \in TabIds : set_active_tab(id)
    \/ \E w \in Widths : set_width(w)
    \/ \E w \in TabWidths : set_tab_width(w)
    \/ \E h \in Heights : set_height(h)
    \/ \E h \in MaxHeights : set_max_height(h)
    \/ \E s \in IconSizes : set_icon_size(s)
    \/ \E s \in TextSizes : set_text_size(s)
    \/ \E s \in CloseSizes : set_close_size(s)
    \/ \E p \in Paddings : set_padding(p)
    \/ \E s \in Spacings : set_spacing(s)
    \/ \E f \in Fonts : set_icon_font(f)
    \/ \E f \in Fonts : set_text_font(f)
    \/ \E s \in Styles : set_style(s)
    \/ \E pl \in Placements : do_layout(pl[1], pl[2])
    \/ \E pl \in Placements : stale_layout(pl[1], pl[2])
    \/ \E ev \in Events : \E cur \in Cursors(node) : on_event(ev, cur)
    \/ \E cur \in Cursors(node) : mouse_interaction(cur)

Spec == Init /\ [][Next]_vars

(***************************************************************************)
(* Properties                                                              *)
(***************************************************************************)
Pressed == op = "on_event" /\ IsPress(event)

\* The pointer has a position, and tab k's rectangle contains it.
PointerIn(k) ==
    /\ cursor.kind = "Available"
    /\ k \in DOMAIN node.children
    /\ Contains(node.children[k].bounds, cursor.position)

HasClose(k) == Len(node.children[k].children) >= 2

PointerInClose(k) ==
    /\ cursor.kind = "Available"
    /\ k \in DOMAIN node.children
    /\ HasClose(k)
    /\ Contains(node.children[k].children[2].bounds, cursor.position)

\* The id given at position k (from 1).
IdAt(k) == given[k][1]

PointerInBar == cursor.kind = "Available" /\ Contains(node.bounds, cursor.position)

C3_PressOutsideIgnored ==
    /\ (Pressed /\ cursor.kind = "Available" /\ \A k \in DOMAIN node.children : ~PointerIn(k))
          => (published = <<>> /\ status = "Ignored")
    /\ (op = "on_event" /\ status = "Captured")
          => ((\E k \in DOMAIN node.children : PointerIn(k)) /\ Len(published) = 1)

\* C3 fails: a press with a cursor that has no position is captured, the first tab
\* holding the origin.
C3_CapturedWithoutPosition ==
    op = "on_event" /\ status = "Captured" /\ cursor.kind = "Unavailable"

\* The first tab matching id among the pairs given, as an index from 0; 0 if none.
FirstGiven(id) ==
    IF \E i \in DOMAIN given : given[i][1] = id
    THEN (CHOOSE i \in DOMAIN given :
             given[i][1] = id /\ \A j \in DOMAIN given : given[j][1] = id => i <= j) - 1
    ELSE 0

\* C4: right after set_active_tab(id), get_active_tab_idx is the position of the
\* first entry whose id is id, or 0 when no entry has it (the empty bar included);
\* the call raises no error.
C4_SetActiveTabFirstMatch ==
    op = "set_active_tab" => (get_active_tab_idx = FirstGiven(arg) /\ Alive)

\* C4 happens: the id is given twice and set_active_tab takes the first of the two.
C4_Witness ==
    /\ op = "set_active_tab"
    /\ Len(given) = 2
    /\ given[1][1] = arg /\ given[2][1] = arg
    /\ get_active_tab_idx = 0

\* C5: active_tab is a valid index into the tab sequence (active_tab < size()), or
\* the tab sequence is empty, in every reachable state.
C5_ActiveTabInRange == tab_indices = <<>> \/ active_tab < size

\* C5 happens: the last tab is the active one, and on_event has run on the bar.
C5_Witness == op = "on_event" /\ size = 2 /\ active_tab = size - 1

\* C6: set_active_tab(id) then get_active_tab_id() gives Some(id) when id was
\* pushed; otherwise the first tab's id, or None when the bar has no tab.
C6_SetThenGetId ==
    op = "set_active_tab" =>
        get_active_tab_id =
            IF \E i \in DOMAIN given : given[i][1] = arg THEN Some(arg)
            ELSE IF given # <<>> THEN Some(given[1][1])
            ELSE None

\* C6 happens: tabs [id1, id2], set_active_tab(id2), and the query gives id2.
C6_Witness ==
    /\ op = "set_active_tab"
    /\ Len(given) = 2
    /\ given[1][1] # arg /\ given[2][1] = arg
    /\ get_active_tab_id = Some(arg)

\* C7: size() is the number of (id, label) pairs given so far, the id and the
\* label sequences are those pairs in order, and no call but push changes them.
C7_SizeIsPairsGiven ==
    /\ [](/\ size = Len(given)
          /\ tab_indices = [i \in DOMAIN given |-> given[i][1]]
          /\ tab_labels = [i \in DOMAIN given |-> given[i][2]])
    /\ [][op' # "push" => UNCHANGED <<tab_labels, tab_indices>>]_vars

\* C7 happens: the bar holds two pairs, and on_close, a setter, set_active_tab and
\* on_event have run on it.
C7_Witness ==
    /\ op = "on_event"
    /\ size = 2
    /\ active_tab = 1
    /\ on_close
    /\ padding # DEFAULT_PADDING

\* C8: mouse_interaction returns Pointer exactly when the pointer has a position
\* inside some tab rectangle, and the default interaction otherwise, a pointer
\* without position included.
C8_PointerIffOverTab ==
    op = "mouse_interaction" =>
        (status = "Pointer" <=> \E k \in DOMAIN node.children : PointerIn(k))

\* C8 fails: Pointer for a cursor that has no position.
C8_PointerWithoutPosition ==
    op = "mouse_interaction" /\ cursor.kind = "Unavailable" /\ status = "Pointer"

\* C9: layout gives one child per pair given, in the order given, and each has a
\* close rectangle as second child exactly when a close callback is registered
\* (two children with a callback, one without).
C9_LayoutChildren ==
    op = "layout" =>
        /\ Len(node.children) = Len(given)
        /\ \A k \in DOMAIN node.children :
              /\ Len(node.children[k].children) = (IF on_close THEN 2 ELSE 1)
              /\ Len(node.children[k].children[1].children)
                    = (IF given[k][2] = "IconText" THEN 2 ELSE 1)
              /\ \A j \in DOMAIN node.children :
                    j < k => node.children[j].bounds.x + node.children[j].bounds.width
                                <= node.children[k].bounds.x

C9_Witness ==
    /\ op = "layout"
    /\ on_close
    /\ Len(node.children) = 2
    /\ given[1][2] # given[2][2]
    /\ Len(node.children[2].children) = 2

\* C10: a press with a cursor that has no position publishes nothing and returns
\* Ignored, also when a tab rectangle contains the origin.
C10_NoPositionNoHit ==
    (Pressed /\ cursor.kind = "Unavailable") => (published = <<>> /\ status = "Ignored")

\* C10 fails: the press selects the tab that holds the origin.
C10_SelectedWithoutPosition ==
    /\ Pressed
    /\ cursor.kind = "Unavailable"
    /\ node.children # <<>>
    /\ Contains(node.children[1].bounds, <<0, 0>>)
    /\ published = <<on_select(IdAt(1))>>

\* C11: an event that is neither a left mouse button press nor a finger press
\* publishes nothing and returns Ignored, wherever the pointer is and whatever the
\* layout.
C11_OnlyPressesPublish ==
    (op = "on_event" /\ event \notin {"Mouse::ButtonPressed(Left)", "Touch::FingerPressed"})
        => (published = <<>> /\ status = "Ignored")

\* C11 happens: the right button is pressed on a tab, inside the bar.
C11_Witness ==
    /\ op = "on_event"
    /\ event = "Mouse::ButtonPressed(Right)"
    /\ PointerInBar
    /\ PointerIn(1)
    /\ status = "Ignored"

\* C12: with a close callback registered, a press that hits a tab whose layout has
\* no second child panics and publishes nothing; with no close callback registered
\* on_event never panics.
C12_MissingCloseLayoutPanics ==
    /\ \A k \in DOMAIN node.children :
          (Pressed /\ on_close /\ PointerInBar /\ PointerIn(k) /\ ~HasClose(k))
          => (status = "Panic" /\ published = <<>>)
    /\ (op = "on_event" /\ ~on_close) => status # "Panic"

\* C12 happens: the second tab of a tree laid out before the close callback was
\* registered is pressed.
C12_Witness ==
    /\ Pressed
    /\ on_close
    /\ PointerInBar
    /\ PointerIn(2)
    /\ ~HasClose(2)
    /\ status = "Panic"

\* C13: on_event leaves the bar as it was: the active index, the id and label
\* sequences, the close callback and the configuration are the same after the call
\* as before, for every event, cursor and layout.
C13_OnEventKeepsBar ==
    [][op' = "on_event" =>
          UNCHANGED <<active_tab, tab_indices, tab_labels, on_close, width, tab_width,
                      height, max_height, icon_size, text_size, close_size, padding,
                      spacing, icon_font, text_font, style>>]_vars

\* C13 happens: a press has selected the second tab, and the first is still the
\* active one.
C13_Witness ==
    /\ Pressed
    /\ Len(given) = 2
    /\ IdAt(1) # IdAt(2)
    /\ published = <<on_select(IdAt(2))>>
    /\ active_tab = 0

====
